---------------------------- MODULE Spec2Model ----------------------------
(* Lead store, qualification pipeline, reply queue and background poster   *)
(* of the gold-rush-scanner repository, as a state machine.                *)
(*                                                                         *)
(* The SQLite file is the shared state: every connection sees committed    *)
(* rows only, and SQLite admits one write transaction at a time, so a      *)
(* statement that is executed and committed on a fresh connection is one   *)
(* step of the model.  insert_lead is kept in two steps (execute, commit)  *)
(* with the write lock held in between.                                    *)
EXTENDS Integers, Sequences, FiniteSets, TLC

(***************************************************************************)
(* Bounds of the model.                                                    *)
(***************************************************************************)
NumScanners == 2
NumUrls == 2
NumStarters == 2
NumThreads == 2

Scanners == 1..NumScanners
Urls == 1..NumUrls
Starters == 1..NumStarters
Threads == 1..NumThreads

None == 0

(***************************************************************************)
(* Configuration (the active profile).                                     *)
(***************************************************************************)
KEYWORDS ==
    [k \in {"looking for a contractor", "want to remodel", "kitchen remodel",
            "remodel ideas", "before and after", "inspiration"} |->
        CASE k = "looking for a contractor" -> 10
          [] k = "want to remodel" -> 9
          [] k = "kitchen remodel" -> 7
          [] k = "remodel ideas" -> 5
          [] k = "before and after" -> 4
          [] OTHER -> 3]

LOCATION_SCORE_BOOST == 3
MIN_SCORE_THRESHOLD == 4
NATIONAL_CAP == 6
AUTO_QUEUE_MIN_SCORE == 7
NOTIFY_MIN_SCORE == 8
MAX_SCORE == 10

LOCAL_SUBREDDITS == {"Denver"}
NoSubreddit == "None"

SentinelAuthors == {"[deleted]", "AutoModerator"}

(***************************************************************************)
(* A text is modelled by what the substring tests of the pipeline see in   *)
(* it: the configured keywords it contains, whether it contains a target   *)
(* location, a generic trigger word, a negative keyword, a local-required  *)
(* term, and how many seller phrases it contains; id tells texts apart.    *)
(***************************************************************************)
Min(a, b) == IF a <= b THEN a ELSE b

MaxOf(S) == CHOOSE x \in S : \A y \in S : y <= x

Text(id, kws, loc, trig, neg, sell, req) ==
    [id |-> id, kws |-> kws, loc |-> loc, trig |-> trig, neg |-> neg,
     sell |-> sell, req |-> req,
     len |-> IF id > 20 THEN 100 * id ELSE 10 * id]

CONTENT_MAX_LEN == 2000

\* text[:n]
Truncate(text, n) == [id |-> text.id, len |-> Min(text.len, n)]

_hits_negative_keyword(text) == text.neg

_is_seller(text) == text.sell >= 2

_passes_local_filter(text, subreddit) ==
    IF subreddit \notin LOCAL_SUBREDDITS THEN TRUE ELSE text.req

_check_location(text) == text.loc

\* a bonus that grows with every further keyword
keyword_bonus_uncapped(n) == n - 1

\* bonus = min(len(matches) - 1, 2)
keyword_bonus(n) == Min(n - 1, 2)

\* a score returned as it was computed
unclamped(score) == score

\* return min(score, 10)
clamped(score) == Min(score, MAX_SCORE)

score_text(text, subreddit) ==
    LET matches == {k \in DOMAIN KEYWORDS : k \in text.kws}
    IN  IF matches = {}
        THEN IF _check_location(text) /\ text.trig
             THEN Min(LOCATION_SCORE_BOOST + 3, MAX_SCORE)
             ELSE 0
        ELSE LET best == MaxOf({KEYWORDS[k] : k \in matches})
                 bonus == keyword_bonus(Cardinality(matches))
                 score == best + bonus
                 final == IF _check_location(text)
                          THEN score + LOCATION_SCORE_BOOST
                          ELSE IF subreddit # NoSubreddit
                                  /\ subreddit \notin LOCAL_SUBREDDITS
                               THEN Min(score, NATIONAL_CAP)
                               ELSE score
             IN  clamped(final)

(***************************************************************************)
(* Candidates handed to the pipeline by the collectors.                    *)
(***************************************************************************)
Candidate(author, text, url, subreddit, created) ==
    [author |-> author, text |-> text, url |-> url, subreddit |-> subreddit,
     created |-> created]

T_hire == Text(1, {"looking for a contractor", "kitchen remodel"}, TRUE, TRUE,
               FALSE, 0, TRUE)
T_want == Text(2, {"want to remodel"}, FALSE, TRUE, FALSE, 0, TRUE)
T_kitchen == Text(3, {"kitchen remodel"}, FALSE, TRUE, FALSE, 0, TRUE)
T_weak == Text(5, {"inspiration"}, FALSE, FALSE, FALSE, 0, TRUE)
T_none == Text(6, {}, FALSE, FALSE, FALSE, 0, FALSE)
T_negative == Text(7, {"looking for a contractor"}, TRUE, TRUE, TRUE, 0, TRUE)
T_seller == Text(8, {"looking for a contractor"}, TRUE, TRUE, FALSE, 2, TRUE)
T_offtopic == Text(9, {"looking for a contractor"}, FALSE, FALSE, FALSE, 0,
                   FALSE)
T_long == Text(25, {"kitchen remodel", "remodel ideas", "inspiration"}, FALSE,
               TRUE, FALSE, 1, TRUE)

\* Submissions: alice's post is found under every url
PostCandidates ==
    {Candidate("alice", T_hire, u, "Denver", 1) : u \in Urls}
    \cup {Candidate("erin", T_weak, 1, "Denver", 1),
          Candidate("[deleted]", T_hire, 1, "Denver", 1),
          Candidate("frank", T_negative, 1, "Denver", 1),
          Candidate("gina", T_seller, 1, "Denver", 1)}

\* Comments
CommentCandidates ==
    {Candidate("carol", T_kitchen, 2, "Denver", 1),
     Candidate("ivan", T_long, 2, "HomeImprovement", 2),
     Candidate("erin", T_none, 1, "HomeImprovement", 1),
     Candidate("AutoModerator", T_hire, 1, "Denver", 1),
     Candidate("hank", T_offtopic, 1, "Denver", 1)}

YoutubeCandidates ==
    {Candidate("yt-user", T_want, 1, NoSubreddit, 2),
     Candidate("yt-user", T_none, 1, NoSubreddit, 1)}

NoCandidate == Candidate("", T_none, None, NoSubreddit, 0)

\* competitors.py: the names searched for and the phrases of a complaint
COMPETITORS == {"home depot"}
COMPLAINT_PHRASES == {"ripped off by"}

T_complaint == Text(10, {"home depot", "ripped off by"}, FALSE, TRUE, FALSE, 0,
                    TRUE)
T_mention == Text(11, {"home depot"}, FALSE, FALSE, FALSE, 0, FALSE)

\* Search results of the web collector; the forum name stands as subreddit
WebCandidates ==
    {Candidate("Houzz Forums", T_want, 1, "Houzz Forums", 2),
     Candidate("Houzz Forums", T_none, 1, "Houzz Forums", 2),
     Candidate("Houzz Forums", T_negative, 2, "Houzz Forums", 2)}

\* Craigslist listings; T_hire is shorter than the shortest listing kept
ListingCandidates ==
    {Candidate("cl/Denver", T_none, 1, "craigslist-denver", 2),
     Candidate("cl/Denver", T_kitchen, 2, "craigslist-denver", 2),
     Candidate("cl/Denver", T_hire, 2, "craigslist-denver", 2)}

\* Posts found by the competitor search; alice's post is found by it too
CompetitorCandidates ==
    {Candidate("dave", T_complaint, 1, "Denver", 1),
     Candidate("dave", T_mention, 2, "HomeImprovement", 1),
     Candidate("alice", T_hire, 1, "Denver", 1),
     Candidate("[deleted]", T_complaint, 1, "Denver", 1)}

(***************************************************************************)
(* State.                                                                  *)
(*   leads, reply_queue  the committed rows of the two tables; a row's id  *)
(*                       is its position (AUTOINCREMENT, no row deleted)   *)
(*   dbWriter            the scanner whose write transaction is open       *)
(*   scan                per scanner: where it is in the pipeline          *)
(*   notified            per url: calls of notify_high_intent_lead         *)
(*   newly               per url: calls of insert_lead that returned True  *)
(*   found               per url: pipeline steps that returned 1           *)
(*   op                  the dashboard's queue_approve request in progress *)
(*   _poster_thread, _poster_running, _reddit   globals of reply_queue.py  *)
(*   starter             per caller of start_poster_thread: its position   *)
(*   thr                 per Thread object: its position in _poster_loop   *)
(*                       and post_reply, the row it read, its sleep timer  *)
(*   delivered           per queue item: the platform reply calls made     *)
(*   lastAttempt         the item of the last finished post attempt and    *)
(*                       the seconds elapsed since (up to BASE_DELAY)      *)
(*   _scan_status        _scan_status["running"] of dashboard.py           *)
(*   run                 per scan thread: its position in trigger_scan /   *)
(*                       _auto_scan_loop, _run_scan_bg and run_full_scan   *)
(*   probe               a text under scoring: the scorer, its inputs and  *)
(*                       the score it returned                             *)
(***************************************************************************)
VARIABLES leads, reply_queue, dbWriter, scan, notified, newly, found, op,
          _poster_thread, _poster_running, _reddit,
          starter, thr, delivered, lastAttempt,
          _scan_status, run, probe

storeVars == <<leads, reply_queue, dbWriter>>
scanVars == <<scan, notified, newly, found>>
posterVars == <<_poster_thread, _poster_running, _reddit,
                starter, thr, delivered, lastAttempt>>
dashVars == <<_scan_status, run, probe>>
vars == <<leads, reply_queue, dbWriter, scan, notified, newly, found, op,
          _poster_thread, _poster_running, _reddit,
          starter, thr, delivered, lastAttempt,
          _scan_status, run, probe>>

ScanIdle ==
    [pc |-> "idle", platform |-> "", cand |-> NoCandidate, score |-> 0,
     changes |-> 0, lead_id |-> None]

\* the leads table without the UNIQUE constraint on url
NoUrlConflict(rows, url) == FALSE

\* db.py: url TEXT NOT NULL UNIQUE; INSERT OR IGNORE skips a conflicting row
UrlConflict(rows, url) == \E i \in 1..Len(rows) : rows[i].url = url

\* a result that does not look at the number of changed rows
ReturnedAlways(changes) == changes >= 0

\* insert_lead: return conn.total_changes > 0
ReturnedInserted(changes) == changes > 0

LeadRow(platform, username, content, url, subreddit, intent_score, found_at) ==
    [platform |-> platform, username |-> username, content |-> content,
     url |-> url, subreddit |-> subreddit, intent_score |-> intent_score,
     found_at |-> found_at, contacted |-> FALSE, notes |-> {}]

\* SELECT id FROM leads WHERE url = ?  (fetchone: the first such row)
LeadIdByUrl(url) ==
    IF \E i \in 1..Len(leads) : leads[i].url = url
    THEN CHOOSE i \in 1..Len(leads) :
            /\ leads[i].url = url
            /\ \A j \in 1..(i - 1) : leads[j].url # url
    ELSE None

is_lead_queued(lead_id) ==
    Cardinality({i \in 1..Len(reply_queue) :
                    reply_queue[i].lead_id = lead_id}) > 0

(***************************************************************************)
(* templates.generate_reply: the tier follows the score, the template      *)
(* within the tier is random.choice.                                       *)
(***************************************************************************)
NumTemplates == 1

generate_reply(score, choice) ==
    [tier |-> IF score >= 8 THEN "high"
              ELSE IF score >= 5 THEN "medium" ELSE "low",
     n |-> choice]

QueueRow(lead_id, reply_text, target_url, created_at) ==
    [lead_id |-> lead_id, reply_text |-> reply_text,
     target_url |-> target_url, status |-> "pending",
     created_at |-> created_at, posted_at |-> "NULL", error_message |-> 0]

\* datetime.now() at the time of the insertion: later rows are not older
CreatedAt(rows) == Len(rows) + 1

(***************************************************************************)
(* Qualification pipeline: scanner.process_post / process_comment and      *)
(* youtube_scanner.process_youtube_comment.  A scanner p is one thread of   *)
(* control running a scan (scheduled, manual or a stand-alone collector).   *)
(***************************************************************************)
Qualifies(c) ==
    /\ c.author \notin SentinelAuthors
    /\ ~_hits_negative_keyword(c.text)
    /\ ~_is_seller(c.text)
    /\ _passes_local_filter(c.text, c.subreddit)
    /\ score_text(c.text, c.subreddit) >= MIN_SCORE_THRESHOLD

\* an INSERT that does not skip a conflicting row: one row changes each time
insert_or_replace_changes(rows, url) == 1

\* insert_lead, conn.execute: the rows changed by INSERT OR IGNORE
insert_lead_changes(rows, url) == IF UrlConflict(rows, url) THEN 0 ELSE 1

\* The scanner's state after the filters and the scoring of candidate c: back
\* at once, or inside insert_lead with the INSERT executed and not committed
Begun(c, platform, accepted, score) ==
    IF accepted
    THEN [ScanIdle EXCEPT !.pc = "commit", !.platform = platform, !.cand = c,
                          !.score = score,
                          !.changes = insert_lead_changes(leads, c.url)]
    ELSE ScanIdle

\* The INSERT opens the write transaction: it waits while another
\* connection's write transaction is open
Locks(p, accepted) ==
    IF accepted THEN dbWriter = None /\ dbWriter' = p ELSE dbWriter' = dbWriter

process_post(p, c) ==
    /\ scan[p].pc = "idle"
    /\ Locks(p, Qualifies(c))
    /\ scan' = [scan EXCEPT ![p] =
                  Begun(c, "reddit", Qualifies(c),
                        score_text(c.text, c.subreddit))]
    /\ UNCHANGED <<leads, reply_queue, notified, newly, found, op, posterVars,
                   dashVars>>

process_comment(p, c) ==
    /\ scan[p].pc = "idle"
    /\ Locks(p, Qualifies(c))
    /\ scan' = [scan EXCEPT ![p] =
                  Begun(c, "reddit", Qualifies(c),
                        score_text(c.text, c.subreddit))]
    /\ UNCHANGED <<leads, reply_queue, notified, newly, found, op, posterVars,
                   dashVars>>

process_youtube_comment(p, c) ==
    /\ scan[p].pc = "idle"
    /\ Locks(p, score_text(c.text, NoSubreddit) >= MIN_SCORE_THRESHOLD)
    /\ scan' = [scan EXCEPT ![p] =
                  Begun(c, "youtube",
                        score_text(c.text, NoSubreddit) >= MIN_SCORE_THRESHOLD,
                        score_text(c.text, NoSubreddit))]
    /\ UNCHANGED <<leads, reply_queue, notified, newly, found, op, posterVars,
                   dashVars>>

\* collectors whose pipeline step returns right after insert_lead
ReturningCollectors == {"youtube", "web", "craigslist"}

\* the side effects without the "if inserted:" guard
ReturnedUnguarded(s, inserted) ==
    IF s.platform \in ReturningCollectors THEN ScanIdle
    ELSE IF s.platform = "competitors" THEN [s EXCEPT !.pc = "tag"]
    ELSE [s EXCEPT !.pc = "auto_queue"]

\* process_post / process_comment: "if inserted:" the side effects follow;
\* process_youtube_comment, process_search_result and process_listing
\* return at once, 1 or 0; search_subreddit_competitors tags the new lead
Returned(s, inserted) ==
    IF ~inserted \/ s.platform \in ReturningCollectors THEN ScanIdle
    ELSE IF s.platform = "competitors" THEN [s EXCEPT !.pc = "tag"]
    ELSE [s EXCEPT !.pc = "auto_queue"]

\* the platform argument of insert_lead in each collector; scan[p].platform
\* names the collector, and the competitor search stores "reddit"
PlatformOf(collector) ==
    IF collector = "competitors" THEN "reddit" ELSE collector

\* insert_lead, conn.commit and return; the caller branches on the result
insert_lead_commit(p) ==
    LET c == scan[p].cand
        row == LeadRow(PlatformOf(scan[p].platform), c.author,
                       Truncate(c.text, CONTENT_MAX_LEN), c.url,
                       IF scan[p].platform = "youtube"
                       THEN "youtube" ELSE c.subreddit,
                       scan[p].score, c.created)
        inserted == ReturnedInserted(scan[p].changes)
    IN  /\ scan[p].pc = "commit"
        /\ dbWriter = p
        /\ dbWriter' = None
        /\ leads' = IF scan[p].changes > 0 THEN Append(leads, row) ELSE leads
        /\ newly' = IF inserted THEN [newly EXCEPT ![c.url] = @ + 1] ELSE newly
        /\ scan' = [scan EXCEPT ![p] = Returned(scan[p], inserted)]
        /\ found' = IF inserted /\ scan[p].platform \in ReturningCollectors
                    THEN [found EXCEPT ![c.url] = @ + 1] ELSE found
        /\ UNCHANGED <<reply_queue, notified, op, posterVars, dashVars>>

\* _auto_queue_lead up to the lookup of the lead's id
auto_queue_select(p) ==
    /\ scan[p].pc = "auto_queue"
    /\ scan' = [scan EXCEPT ![p] =
                  IF scan[p].score < AUTO_QUEUE_MIN_SCORE
                     \/ LeadIdByUrl(scan[p].cand.url) = None
                  THEN [@ EXCEPT !.pc = "notify"]
                  ELSE [@ EXCEPT !.pc = "is_queued",
                                 !.lead_id = LeadIdByUrl(scan[p].cand.url)]]
    /\ UNCHANGED <<storeVars, notified, newly, found, op, posterVars,
                   dashVars>>

\* _auto_queue_lead: if is_lead_queued(lead_id): return
auto_queue_check(p) ==
    /\ scan[p].pc = "is_queued"
    /\ scan' = [scan EXCEPT ![p].pc =
                  IF is_lead_queued(scan[p].lead_id)
                  THEN "notify" ELSE "add_to_queue"]
    /\ UNCHANGED <<storeVars, notified, newly, found, op, posterVars,
                   dashVars>>

\* _auto_queue_lead: generate_reply and add_to_queue
auto_queue_add(p) ==
    /\ scan[p].pc = "add_to_queue"
    /\ dbWriter = None
    /\ \E choice \in 1..NumTemplates :
          reply_queue' =
              Append(reply_queue,
                     QueueRow(scan[p].lead_id,
                              generate_reply(scan[p].score, choice),
                              scan[p].cand.url, CreatedAt(reply_queue)))
    /\ scan' = [scan EXCEPT ![p].pc = "notify"]
    /\ UNCHANGED <<leads, dbWriter, notified, newly, found, op, posterVars,
                   dashVars>>

\* _auto_queue_lead: except Exception: log and go on
auto_queue_error(p) ==
    /\ scan[p].pc \in {"auto_queue", "is_queued", "add_to_queue"}
    /\ scan[p].score >= AUTO_QUEUE_MIN_SCORE
    /\ scan' = [scan EXCEPT ![p].pc = "notify"]
    /\ UNCHANGED <<storeVars, notified, newly, found, op, posterVars,
                   dashVars>>

\* a notification error that leaves process_post before its return 1
FoundUnlessRaised(url, raised) ==
    IF raised THEN found ELSE [found EXCEPT ![url] = @ + 1]

\* process_post: return 1, reached whether the notification raised or not
FoundAfterNotify(url, raised) == [found EXCEPT ![url] = @ + 1]

\* process_post: if score >= 8: notify_high_intent_lead(...); return 1
notify_and_return(p) ==
    /\ scan[p].pc = "notify"
    /\ notified' = IF scan[p].score >= NOTIFY_MIN_SCORE
                   THEN [notified EXCEPT ![scan[p].cand.url] = @ + 1]
                   ELSE notified
    /\ found' = FoundAfterNotify(scan[p].cand.url, FALSE)
    /\ scan' = [scan EXCEPT ![p] = ScanIdle]
    /\ UNCHANGED <<storeVars, newly, op, posterVars, dashVars>>

\* notify_high_intent_lead raises: except Exception: log.warning; return 1
notify_fails_and_return(p) ==
    /\ scan[p].pc = "notify"
    /\ scan[p].score >= NOTIFY_MIN_SCORE
    /\ found' = FoundAfterNotify(scan[p].cand.url, TRUE)
    /\ scan' = [scan EXCEPT ![p] = ScanIdle]
    /\ UNCHANGED <<storeVars, notified, newly, op, posterVars, dashVars>>

(***************************************************************************)
(* The other collectors: web_scanner.process_search_result,                *)
(* craigslist_scanner.process_listing and                                   *)
(* competitors.search_subreddit_competitors.                                *)
(***************************************************************************)
\* web_scanner._score_text: keywords only
_score_text(text) ==
    LET matches == {k \in DOMAIN KEYWORDS : k \in text.kws}
    IN  IF matches = {} THEN 0
        ELSE Min(MaxOf({KEYWORDS[k] : k \in matches})
                 + keyword_bonus(Cardinality(matches)), MAX_SCORE)

CRAIGSLIST_BASE_SCORE == 5
CRAIGSLIST_BOOST == 2
LISTING_MIN_LEN == 15

\* craigslist_scanner.score_listing
score_listing(text) ==
    LET matches == {k \in DOMAIN KEYWORDS : k \in text.kws}
    IN  IF matches = {} THEN CRAIGSLIST_BASE_SCORE
        ELSE Min(MaxOf({KEYWORDS[k] : k \in matches})
                 + keyword_bonus(Cardinality(matches)) + CRAIGSLIST_BOOST,
                 MAX_SCORE)

COMPLAINT_SCORE == 10
MENTION_SCORE == 6

\* competitors._check_competitor_complaint: the score; 0 with no competitor
_check_competitor_complaint(text) ==
    IF COMPETITORS \cap text.kws = {} THEN 0
    ELSE IF COMPLAINT_PHRASES \cap text.kws # {} THEN COMPLAINT_SCORE
    ELSE MENTION_SCORE

process_search_result(p, c) ==
    /\ scan[p].pc = "idle"
    /\ Locks(p, _score_text(c.text) >= MIN_SCORE_THRESHOLD)
    /\ scan' = [scan EXCEPT ![p] =
                  Begun(c, "web", _score_text(c.text) >= MIN_SCORE_THRESHOLD,
                        _score_text(c.text))]
    /\ UNCHANGED <<leads, reply_queue, notified, newly, found, op, posterVars,
                   dashVars>>

process_listing(p, c) ==
    /\ scan[p].pc = "idle"
    /\ Locks(p, c.text.len >= LISTING_MIN_LEN
                /\ score_listing(c.text) >= MIN_SCORE_THRESHOLD)
    /\ scan' = [scan EXCEPT ![p] =
                  Begun(c, "craigslist",
                        c.text.len >= LISTING_MIN_LEN
                            /\ score_listing(c.text) >= MIN_SCORE_THRESHOLD,
                        score_listing(c.text))]
    /\ UNCHANGED <<leads, reply_queue, notified, newly, found, op, posterVars,
                   dashVars>>

\* search_subreddit_competitors, one post of the search result
process_competitor_post(p, c) ==
    /\ scan[p].pc = "idle"
    /\ Locks(p, c.author \notin SentinelAuthors
                /\ _check_competitor_complaint(c.text) > 0)
    /\ scan' = [scan EXCEPT ![p] =
                  Begun(c, "competitors",
                        c.author \notin SentinelAuthors
                            /\ _check_competitor_complaint(c.text) > 0,
                        _check_competitor_complaint(c.text))]
    /\ UNCHANGED <<leads, reply_queue, notified, newly, found, op, posterVars,
                   dashVars>>

\* a tag that also stores the score of a mention on the row
tag_row_rescored(row, score) ==
    [row EXCEPT !.notes = @ \cup {IF score = COMPLAINT_SCORE
                                  THEN "competitor_complaint"
                                  ELSE "competitor_mention"},
                !.intent_score = MENTION_SCORE]

\* _tag_lead_as_competitor: UPDATE leads SET notes = ? WHERE id = ?
tag_row(row, score) ==
    [row EXCEPT !.notes = @ \cup {IF score = COMPLAINT_SCORE
                                  THEN "competitor_complaint"
                                  ELSE "competitor_mention"}]

\* search_subreddit_competitors: if inserted: _tag_lead_as_competitor(...);
\* leads_found += 1
tag_lead_as_competitor(p) ==
    /\ scan[p].pc = "tag"
    /\ dbWriter = None
    /\ leads' = [i \in 1..Len(leads) |->
                    IF i = LeadIdByUrl(scan[p].cand.url)
                    THEN tag_row(leads[i], scan[p].score) ELSE leads[i]]
    /\ found' = [found EXCEPT ![scan[p].cand.url] = @ + 1]
    /\ scan' = [scan EXCEPT ![p] = ScanIdle]
    /\ UNCHANGED <<reply_queue, dbWriter, notified, newly, op, posterVars,
                   dashVars>>

(***************************************************************************)
(* The operator's edits of a lead: dashboard.toggle and save_notes.         *)
(***************************************************************************)
\* db.mark_contacted: contacted = CASE WHEN contacted = 0 THEN 1 ELSE 0 END
mark_contacted(lead_id) ==
    /\ dbWriter = None
    /\ lead_id \in 1..Len(leads)
    /\ leads' = [leads EXCEPT ![lead_id].contacted = ~@]
    /\ UNCHANGED <<reply_queue, dbWriter, scanVars, op, posterVars, dashVars>>

\* db.update_notes: the notes become what the form sent, the empty text too
update_notes(lead_id, notes) ==
    /\ dbWriter = None
    /\ lead_id \in 1..Len(leads)
    /\ leads' = [leads EXCEPT ![lead_id].notes = notes]
    /\ UNCHANGED <<reply_queue, dbWriter, scanVars, op, posterVars, dashVars>>

(***************************************************************************)
(* Reply queue: db.update_queue_status and its callers in the dashboard.   *)
(***************************************************************************)
NoError == -1

\* UPDATE reply_queue SET status = ?[, error_message = ?] WHERE id = ?
update_queue_status(rows, queue_id, status, error) ==
    [i \in 1..Len(rows) |->
        IF i # queue_id THEN rows[i]
        ELSE IF error # NoError
        THEN [rows[i] EXCEPT !.status = status, !.error_message = error]
        ELSE [rows[i] EXCEPT !.status = status]]

\* an approval that also wipes the item's error message
approve_reply_clearing(rows, queue_id) ==
    update_queue_status(rows, queue_id, "approved", 0)

approve_reply(rows, queue_id) ==
    update_queue_status(rows, queue_id, "approved", NoError)

skip_reply(rows, queue_id) ==
    update_queue_status(rows, queue_id, "skipped", NoError)

NumEdits == 1

EditedText(n) == [tier |-> "edited", n |-> n]

NoText == [tier |-> "", n |-> 0]

\* queue_approve, first commit: the posted form carries a reply_text
queue_approve_edit(queue_id, n) ==
    /\ op = None
    /\ dbWriter = None
    /\ queue_id \in 1..Len(reply_queue)
    /\ reply_queue' = [reply_queue EXCEPT ![queue_id].reply_text = EditedText(n)]
    /\ op' = queue_id
    /\ UNCHANGED <<leads, dbWriter, scanVars, posterVars,
                   dashVars>>

\* queue_approve: approve_reply(queue_id), after the edit or without one
queue_approve(queue_id) ==
    /\ op \in {None, queue_id}
    /\ dbWriter = None
    /\ queue_id \in 1..Len(reply_queue)
    /\ reply_queue' = approve_reply(reply_queue, queue_id)
    /\ op' = None
    /\ UNCHANGED <<leads, dbWriter, scanVars, posterVars,
                   dashVars>>

queue_skip(queue_id) ==
    /\ op = None
    /\ dbWriter = None
    /\ queue_id \in 1..Len(reply_queue)
    /\ reply_queue' = skip_reply(reply_queue, queue_id)
    /\ UNCHANGED <<leads, dbWriter, scanVars, op, posterVars,
                   dashVars>>

(***************************************************************************)
(* Background poster: reply_queue.start_poster_thread, stop_poster_thread, *)
(* _poster_loop and post_reply.  Time is counted in seconds and passes in  *)
(* steps of TickSeconds.                                                   *)
(***************************************************************************)
TickSeconds == 60
BASE_DELAY == 300
MAX_JITTER == 60
IDLE_SLEEP == 30
ERROR_SLEEP == 60
ERROR_MAX_LEN == 500
CREDENTIALS_ERROR_LEN == 33
LOCKED_ERROR_LEN == 18
LONG_ERROR_LEN == 600

\* random.randint(0, 60), in steps of the tick
Jitters == {j \in 0..MAX_JITTER : j % TickSeconds = 0}

\* len(str(e)) for the exceptions of the delivery block
ExceptionTextLens == {0, LOCKED_ERROR_LEN, LONG_ERROR_LEN}

ThreadNew ==
    [pc |-> "new", item |-> None, text |-> NoText, err |-> 0, wait |-> 0,
     outcome |-> "none"]

\* Thread.is_alive(): started and not yet finished
is_alive(t) == thr[t].pc \notin {"new", "created", "dead"}

\* '"/comments/" in url' and the comment-permalink test of post_reply
UrlShape(url) ==
    CASE url % 3 = 1 -> "post"
      [] url % 3 = 2 -> "other"
      [] OTHER -> "comment"

\* get_queue_items(status="approved", limit=1): ORDER BY created_at DESC
FirstApproved(rows) ==
    LET approved == {i \in 1..Len(rows) : rows[i].status = "approved"}
    IN  IF approved = {} THEN None
        ELSE CHOOSE i \in approved :
                \A j \in approved : rows[j].created_at <= rows[i].created_at

\* start_poster_thread: if _poster_thread and _poster_thread.is_alive(): return
start_check(s) ==
    /\ starter[s] = "idle"
    /\ starter' = [starter EXCEPT ![s] =
                     IF _poster_thread # None /\ is_alive(_poster_thread)
                     THEN "idle" ELSE "create"]
    /\ UNCHANGED <<storeVars, scanVars, op, _poster_thread, _poster_running,
                   _reddit, thr, delivered, lastAttempt,
                   dashVars>>

\* start_poster_thread: _poster_thread = threading.Thread(target=_poster_loop)
start_create(s) ==
    /\ starter[s] = "create"
    /\ \E t \in Threads :
          /\ thr[t].pc = "new"
          /\ \A u \in Threads : u < t => thr[u].pc # "new"
          /\ thr' = [thr EXCEPT ![t].pc = "created"]
          /\ _poster_thread' = t
    /\ starter' = [starter EXCEPT ![s] = "start"]
    /\ UNCHANGED <<storeVars, scanVars, op, _poster_running, _reddit,
                   delivered, lastAttempt,
                   dashVars>>

\* start_poster_thread: _poster_thread.start() on the global; starting a
\* thread that was started already raises RuntimeError
start_start(s) ==
    /\ starter[s] = "start"
    /\ thr' = IF thr[_poster_thread].pc = "created"
              THEN [thr EXCEPT ![_poster_thread].pc = "started"]
              ELSE thr
    /\ starter' = [starter EXCEPT ![s] = "idle"]
    /\ UNCHANGED <<storeVars, scanVars, op, _poster_thread, _poster_running,
                   _reddit, delivered, lastAttempt,
                   dashVars>>

stop_poster_thread ==
    /\ _poster_running
    /\ _poster_running' = FALSE
    /\ UNCHANGED <<storeVars, scanVars, op, _poster_thread, _reddit,
                   starter, thr, delivered, lastAttempt,
                   dashVars>>

\* A caller that restarts the poster: stop_poster_thread() ...
restart_stop(s) ==
    /\ starter[s] = "idle"
    /\ _poster_running
    /\ _poster_running' = FALSE
    /\ starter' = [starter EXCEPT ![s] = "restart"]
    /\ UNCHANGED <<storeVars, scanVars, op, _poster_thread, _reddit,
                   thr, delivered, lastAttempt, dashVars>>

\* ... followed by start_poster_thread(), which returns at once if the
\* thread of the global is alive
restart_check(s) ==
    /\ starter[s] = "restart"
    /\ starter' = [starter EXCEPT ![s] =
                     IF _poster_thread # None /\ is_alive(_poster_thread)
                     THEN "returned" ELSE "create"]
    /\ UNCHANGED <<storeVars, scanVars, op, _poster_thread, _poster_running,
                   _reddit, thr, delivered, lastAttempt, dashVars>>

\* a loop without its try: an exception that leaves post_reply ends it
SleepingUnlessRaised(t, seconds, outcome) ==
    IF outcome = "raised" THEN [ThreadNew EXCEPT !.pc = "dead"]
    ELSE [ThreadNew EXCEPT !.pc = "sleep", !.wait = seconds,
                           !.outcome = outcome]

\* time.sleep(seconds); clears what the finished iteration held
Sleeping(t, seconds, outcome) ==
    [ThreadNew EXCEPT !.pc = "sleep", !.wait = seconds, !.outcome = outcome]

\* post_reply has finished on item i: the rate-limit clock restarts
Attempted(i) == [item |-> i, since |-> 0]

\* _poster_loop: _poster_running = True
loop_enter(t) ==
    /\ thr[t].pc = "started"
    /\ _poster_running' = TRUE
    /\ thr' = [thr EXCEPT ![t].pc = "test"]
    /\ UNCHANGED <<storeVars, scanVars, op, _poster_thread, _reddit,
                   starter, delivered, lastAttempt,
                   dashVars>>

\* _poster_loop: while _poster_running
loop_test(t) ==
    /\ thr[t].pc = "test"
    /\ thr' = [thr EXCEPT ![t] =
                 IF _poster_running THEN [ThreadNew EXCEPT !.pc = "fetch"]
                 ELSE [ThreadNew EXCEPT !.pc = "dead"]]
    /\ UNCHANGED <<storeVars, scanVars, op, _poster_thread, _poster_running,
                   _reddit, starter, delivered, lastAttempt,
                   dashVars>>

\* _poster_loop: items = get_queue_items(status="approved", limit=1)
loop_fetch(t) ==
    /\ thr[t].pc = "fetch"
    /\ thr' = [thr EXCEPT ![t] =
                 IF FirstApproved(reply_queue) = None
                 THEN Sleeping(t, IDLE_SLEEP, "none")
                 ELSE [@ EXCEPT !.pc = "select",
                                !.item = FirstApproved(reply_queue)]]
    /\ UNCHANGED <<storeVars, scanVars, op, _poster_thread, _poster_running,
                   _reddit, starter, delivered, lastAttempt,
                   dashVars>>

\* a read of the store raises (get_queue_items, or the SELECT of post_reply):
\* _poster_loop logs it and sleeps 60 s
loop_read_error(t) ==
    /\ thr[t].pc \in {"fetch", "select"}
    /\ thr' = [thr EXCEPT ![t] =
                 Sleeping(t, ERROR_SLEEP,
                          IF thr[t].pc = "select" THEN "raised" ELSE "none")]
    /\ UNCHANGED <<storeVars, scanVars, op, _poster_thread, _poster_running,
                   _reddit, starter, delivered, lastAttempt,
                   dashVars>>

\* post_reply: item = SELECT * FROM reply_queue WHERE id = ?
post_select(t) ==
    /\ thr[t].pc = "select"
    /\ thr' = [thr EXCEPT ![t].pc = "call",
                          ![t].text = reply_queue[thr[t].item].reply_text]
    /\ UNCHANGED <<storeVars, scanVars, op, _poster_thread, _poster_running,
                   _reddit, starter, delivered, lastAttempt,
                   dashVars>>

\* post_reply: _get_reddit() gives None (settings missing or the login
\* fails); update_queue_status(failed, "Reddit credentials not configured")
post_no_reddit(t) ==
    /\ thr[t].pc = "call"
    /\ ~_reddit
    /\ dbWriter = None
    /\ reply_queue' = update_queue_status(reply_queue, thr[t].item, "failed",
                                          CREDENTIALS_ERROR_LEN)
    /\ \E j \in Jitters :
          thr' = [thr EXCEPT ![t] = Sleeping(t, BASE_DELAY + j, "failed")]
    /\ lastAttempt' = Attempted(thr[t].item)
    /\ UNCHANGED <<leads, dbWriter, scanVars, op, _poster_thread,
                   _poster_running, _reddit, starter, delivered,
                   dashVars>>

\* the same, but the write of the failure raises: post_reply raises too
post_no_reddit_error(t) ==
    /\ thr[t].pc = "call"
    /\ ~_reddit
    /\ thr' = [thr EXCEPT ![t] = Sleeping(t, ERROR_SLEEP, "raised")]
    /\ lastAttempt' = Attempted(thr[t].item)
    /\ UNCHANGED <<storeVars, scanVars, op, _poster_thread, _poster_running,
                   _reddit, starter, delivered,
                   dashVars>>

\* _get_reddit: the settings are there and praw logs in; the instance is kept
get_reddit_login(t) ==
    /\ thr[t].pc = "call"
    /\ ~_reddit
    /\ _reddit' = TRUE
    /\ UNCHANGED <<storeVars, scanVars, op, _poster_thread, _poster_running,
                   starter, thr, delivered, lastAttempt,
                   dashVars>>

\* number of calls recorded per item stops counting at this value
MaxCount == 2

Deliver(i) ==
    IF i \in DOMAIN delivered
    THEN [delivered EXCEPT ![i] = Min(@ + 1, MaxCount)]
    ELSE delivered @@ (i :> 1)

\* post_reply, the delivery block: comment.reply / submission.reply returns;
\* a url without "/comments/" makes no call at all
post_call(t) ==
    /\ thr[t].pc = "call"
    /\ _reddit
    /\ delivered' = IF UrlShape(reply_queue[thr[t].item].target_url) = "other" THEN delivered
                    ELSE Deliver(thr[t].item)
    /\ thr' = [thr EXCEPT ![t].pc = "posted"]
    /\ UNCHANGED <<storeVars, scanVars, op, _poster_thread, _poster_running,
                   _reddit, starter, lastAttempt,
                   dashVars>>

\* the delivery block raises e: the handler will store str(e)[:500]
post_call_raises(t) ==
    /\ thr[t].pc = "call"
    /\ _reddit
    /\ UrlShape(reply_queue[thr[t].item].target_url) # "other"
    /\ \E len \in ExceptionTextLens :
          thr' = [thr EXCEPT ![t].pc = "failed",
                             ![t].err = Min(len, ERROR_MAX_LEN)]
    /\ UNCHANGED <<storeVars, scanVars, op, _poster_thread, _poster_running,
                   _reddit, starter, delivered, lastAttempt,
                   dashVars>>

\* UPDATE reply_queue SET status = 'posted', posted_at = ?, error_message = ''
MarkPosted(rows, queue_id) ==
    [rows EXCEPT ![queue_id] =
        [@ EXCEPT !.status = "posted", !.posted_at = "set",
                  !.error_message = 0]]

post_write_posted(t) ==
    /\ thr[t].pc = "posted"
    /\ dbWriter = None
    /\ reply_queue' = MarkPosted(reply_queue, thr[t].item)
    /\ \E j \in Jitters :
          thr' = [thr EXCEPT ![t] = Sleeping(t, BASE_DELAY + j, "posted")]
    /\ lastAttempt' = Attempted(thr[t].item)
    /\ UNCHANGED <<leads, dbWriter, scanVars, op, _poster_thread,
                   _poster_running, _reddit, starter, delivered,
                   dashVars>>

\* the UPDATE to posted raises (sqlite3.OperationalError): same handler
post_write_posted_error(t) ==
    /\ thr[t].pc = "posted"
    /\ thr' = [thr EXCEPT ![t].pc = "failed",
                          ![t].err = Min(LOCKED_ERROR_LEN, ERROR_MAX_LEN)]
    /\ UNCHANGED <<storeVars, scanVars, op, _poster_thread, _poster_running,
                   _reddit, starter, delivered, lastAttempt,
                   dashVars>>

\* except Exception as e: update_queue_status(queue_id, "failed", str(e)[:500])
post_write_failed(t) ==
    /\ thr[t].pc = "failed"
    /\ dbWriter = None
    /\ reply_queue' = update_queue_status(reply_queue, thr[t].item, "failed",
                                          thr[t].err)
    /\ \E j \in Jitters :
          thr' = [thr EXCEPT ![t] = Sleeping(t, BASE_DELAY + j, "failed")]
    /\ lastAttempt' = Attempted(thr[t].item)
    /\ UNCHANGED <<leads, dbWriter, scanVars, op, _poster_thread,
                   _poster_running, _reddit, starter, delivered,
                   dashVars>>

\* the write of the failure raises inside the handler: post_reply raises,
\* _poster_loop logs it and sleeps 60 s
post_write_failed_error(t) ==
    /\ thr[t].pc = "failed"
    /\ thr' = [thr EXCEPT ![t] = Sleeping(t, ERROR_SLEEP, "raised")]
    /\ lastAttempt' = Attempted(thr[t].item)
    /\ UNCHANGED <<storeVars, scanVars, op, _poster_thread, _poster_running,
                   _reddit, starter, delivered,
                   dashVars>>

\* time.sleep returns
loop_wake(t) ==
    /\ thr[t].pc = "sleep"
    /\ thr[t].wait = 0
    /\ thr' = [thr EXCEPT ![t].pc = "test"]
    /\ UNCHANGED <<storeVars, scanVars, op, _poster_thread, _poster_running,
                   _reddit, starter, delivered, lastAttempt,
                   dashVars>>

\* TickSeconds pass
Tick ==
    /\ ~ /\ \A t \in Threads : thr[t].pc = "sleep" => thr[t].wait = 0
         /\ lastAttempt.item # None => lastAttempt.since = BASE_DELAY
    /\ thr' = [t \in Threads |->
                 IF thr[t].pc = "sleep" /\ thr[t].wait > 0
                 THEN [thr[t] EXCEPT !.wait =
                          IF @ > TickSeconds THEN @ - TickSeconds ELSE 0]
                 ELSE thr[t]]
    /\ lastAttempt' = IF lastAttempt.item = None THEN lastAttempt
                      ELSE [lastAttempt EXCEPT !.since =
                               Min(@ + TickSeconds, BASE_DELAY)]
    /\ UNCHANGED <<storeVars, scanVars, op, _poster_thread, _poster_running,
                   _reddit, starter, delivered,
                   dashVars>>

\* enough time passes for every sleep and for the rate-limit delay to end
Elapse ==
    /\ ~ /\ \A t \in Threads : thr[t].pc = "sleep" => thr[t].wait = 0
         /\ lastAttempt.item # None => lastAttempt.since = BASE_DELAY
    /\ thr' = [t \in Threads |->
                 IF thr[t].pc = "sleep" THEN [thr[t] EXCEPT !.wait = 0]
                 ELSE thr[t]]
    /\ lastAttempt' = IF lastAttempt.item = None THEN lastAttempt
                      ELSE [lastAttempt EXCEPT !.since = BASE_DELAY]
    /\ UNCHANGED <<storeVars, scanVars, op, _poster_thread, _poster_running,
                   _reddit, starter, delivered,
                   dashVars>>

(***************************************************************************)
(* The dashboard's scans: trigger_scan, _auto_scan_loop, _run_scan_bg and  *)
(* scanner.run_full_scan.  Scan thread r runs its candidates through the   *)
(* pipeline as scanner r; thread 1 is the auto-scan thread.                *)
(***************************************************************************)
AutoScanner == 1

RunIdle == [pc |-> "idle", pos |-> 0, aborted |-> FALSE]

\* what the listings of a scan hold, in the order scan_subreddit meets it
RedditBatch ==
    <<[kind |-> "post", cand |-> Candidate("alice", T_hire, 1, "Denver", 1)],
      [kind |-> "comment",
       cand |-> Candidate("carol", T_kitchen, 2, "Denver", 1)]>>

\* the comments run_youtube_scan meets
YoutubeBatch == <<Candidate("yt-user", T_want, 1, NoSubreddit, 2)>>

InFullScan(r) == run[r].pc \in {"reddit", "youtube", "finally"}

\* trigger_scan: if not _scan_status["running"]: Thread(_run_scan_bg).start()
trigger_scan(r) ==
    /\ r # AutoScanner
    /\ run[r].pc = "idle"
    /\ ~_scan_status
    /\ run' = [run EXCEPT ![r].pc = "spawned"]
    /\ UNCHANGED <<storeVars, scanVars, op, posterVars, _scan_status, probe>>

\* _auto_scan_loop: if not _scan_status["running"]: _run_scan_bg()
auto_scan_tick(r) ==
    /\ r = AutoScanner
    /\ run[r].pc = "idle"
    /\ ~_scan_status
    /\ run' = [run EXCEPT ![r].pc = "spawned"]
    /\ UNCHANGED <<storeVars, scanVars, op, posterVars, _scan_status, probe>>

\* _run_scan_bg: _scan_status["running"] = True; run_full_scan() starts
run_scan_enter(r) ==
    /\ run[r].pc = "spawned"
    /\ _scan_status' = TRUE
    /\ run' = [run EXCEPT ![r].pc = "reddit", ![r].pos = 1]
    /\ UNCHANGED <<storeVars, scanVars, op, posterVars, probe>>

\* scan_subreddit: leads_found += process_post(d, subreddit)
scan_process_post(r) ==
    /\ run[r].pc = "reddit"
    /\ run[r].pos <= Len(RedditBatch)
    /\ RedditBatch[run[r].pos].kind = "post"
    /\ scan[r].pc = "idle"
    /\ LET c == RedditBatch[run[r].pos].cand
       IN  /\ Locks(r, Qualifies(c))
           /\ scan' = [scan EXCEPT ![r] =
                         Begun(c, "reddit", Qualifies(c),
                               score_text(c.text, c.subreddit))]
    /\ run' = [run EXCEPT ![r].pos = @ + 1]
    /\ UNCHANGED <<leads, reply_queue, notified, newly, found, op, posterVars,
                   _scan_status, probe>>

\* scan_subreddit: leads_found += process_comment(c, subreddit)
scan_process_comment(r) ==
    /\ run[r].pc = "reddit"
    /\ run[r].pos <= Len(RedditBatch)
    /\ RedditBatch[run[r].pos].kind = "comment"
    /\ scan[r].pc = "idle"
    /\ LET c == RedditBatch[run[r].pos].cand
       IN  /\ Locks(r, Qualifies(c))
           /\ scan' = [scan EXCEPT ![r] =
                         Begun(c, "reddit", Qualifies(c),
                               score_text(c.text, c.subreddit))]
    /\ run' = [run EXCEPT ![r].pos = @ + 1]
    /\ UNCHANGED <<leads, reply_queue, notified, newly, found, op, posterVars,
                   _scan_status, probe>>

\* process_post or process_comment raises on the candidate (a created_utc
\* that is no number, the database locked at the INSERT): nothing catches it
\* in scan_subreddit or in the loop of run_full_scan
scan_candidate_raises(r) ==
    /\ run[r].pc = "reddit"
    /\ run[r].pos <= Len(RedditBatch)
    /\ scan[r].pc = "idle"
    /\ run' = [run EXCEPT ![r].pc = "finally", ![r].aborted = TRUE]
    /\ UNCHANGED <<storeVars, scanVars, op, posterVars, _scan_status, probe>>

\* run_full_scan: the loop over SUBREDDITS is over; run_youtube_scan()
scan_reddit_done(r) ==
    /\ run[r].pc = "reddit"
    /\ run[r].pos > Len(RedditBatch)
    /\ scan[r].pc = "idle"
    /\ run' = [run EXCEPT ![r].pc = "youtube", ![r].pos = 1]
    /\ UNCHANGED <<storeVars, scanVars, op, posterVars, _scan_status, probe>>

\* run_youtube_scan: total += process_youtube_comment(c)
scan_process_youtube(r) ==
    /\ run[r].pc = "youtube"
    /\ run[r].pos <= Len(YoutubeBatch)
    /\ scan[r].pc = "idle"
    /\ LET c == YoutubeBatch[run[r].pos]
       IN  /\ Locks(r, score_text(c.text, NoSubreddit) >= MIN_SCORE_THRESHOLD)
           /\ scan' = [scan EXCEPT ![r] =
                         Begun(c, "youtube",
                               score_text(c.text, NoSubreddit)
                                   >= MIN_SCORE_THRESHOLD,
                               score_text(c.text, NoSubreddit))]
    /\ run' = [run EXCEPT ![r].pos = @ + 1]
    /\ UNCHANGED <<leads, reply_queue, notified, newly, found, op, posterVars,
                   _scan_status, probe>>

\* run_full_scan: a collector raises; except Exception: log and go on.  Its
\* remaining candidates are left out; the collectors that follow run
scan_collector_raises(r) ==
    /\ run[r].pc = "youtube"
    /\ run[r].pos <= Len(YoutubeBatch)
    /\ scan[r].pc = "idle"
    /\ run' = [run EXCEPT ![r].pc = "finally"]
    /\ UNCHANGED <<storeVars, scanVars, op, posterVars, _scan_status, probe>>

\* run_full_scan returns
scan_collectors_done(r) ==
    /\ run[r].pc = "youtube"
    /\ run[r].pos > Len(YoutubeBatch)
    /\ scan[r].pc = "idle"
    /\ run' = [run EXCEPT ![r].pc = "finally"]
    /\ UNCHANGED <<storeVars, scanVars, op, posterVars, _scan_status, probe>>

\* _run_scan_bg: finally: _scan_status["running"] = False.  An exception
\* goes on to the caller: the thread of a manual scan ends, and so does
\* the auto-scan thread, whose loop catches nothing
run_scan_finish(r) ==
    /\ run[r].pc = "finally"
    /\ _scan_status' = FALSE
    /\ run' = [run EXCEPT ![r] =
                 IF run[r].aborted /\ r = AutoScanner
                 THEN [RunIdle EXCEPT !.pc = "dead"] ELSE RunIdle]
    /\ UNCHANGED <<storeVars, scanVars, op, posterVars, probe>>

(***************************************************************************)
(* Scoring on its own: a probe holds the inputs of one scorer, the score   *)
(* it returned and the score of a second call with the same inputs.        *)
(***************************************************************************)
NotScored == -1

Probe(scorer, text, subreddit) ==
    [scorer |-> scorer, text |-> text, subreddit |-> subreddit,
     score |-> NotScored, again |-> NotScored]

NoProbe == Probe("", T_none, NoSubreddit)

ProbeTexts ==
    {Text(0, kws, loc, trig, FALSE, 0, TRUE) :
        kws \in SUBSET (DOMAIN KEYWORDS), loc \in BOOLEAN, trig \in BOOLEAN}

ProbeInputs ==
    {Probe("score_text", t, sub) :
        t \in ProbeTexts, sub \in {NoSubreddit, "Denver", "HomeImprovement"}}
    \cup {Probe("_score_text", t, "Houzz Forums") : t \in ProbeTexts}
    \cup {Probe("score_listing", t, "craigslist-denver") : t \in ProbeTexts}

\* the probe after a call that returned score
Scored(score) ==
    IF probe.score = NotScored THEN [probe EXCEPT !.score = score]
    ELSE [probe EXCEPT !.again = score]

probe_score_text ==
    /\ probe.scorer = "score_text"
    /\ probe.again = NotScored
    /\ probe' = Scored(score_text(probe.text, probe.subreddit))
    /\ UNCHANGED <<storeVars, scanVars, op, posterVars, _scan_status, run>>

probe_web_score_text ==
    /\ probe.scorer = "_score_text"
    /\ probe.again = NotScored
    /\ probe' = Scored(_score_text(probe.text))
    /\ UNCHANGED <<storeVars, scanVars, op, posterVars, _scan_status, run>>

probe_score_listing ==
    /\ probe.scorer = "score_listing"
    /\ probe.again = NotScored
    /\ probe' = Scored(score_listing(probe.text))
    /\ UNCHANGED <<storeVars, scanVars, op, posterVars, _scan_status, run>>

(***************************************************************************)
(* Initial state: a fresh database, nothing started.                       *)
(***************************************************************************)
InitProgram ==
    /\ leads = <<>>
    /\ reply_queue = <<>>
    /\ dbWriter = None
    /\ scan = [p \in Scanners |-> ScanIdle]
    /\ notified = [u \in Urls |-> 0]
    /\ newly = [u \in Urls |-> 0]
    /\ op = None
    /\ _poster_thread = None
    /\ _poster_running = FALSE
    /\ _reddit = FALSE
    /\ starter = [s \in Starters |-> "idle"]
    /\ thr = [t \in Threads |-> ThreadNew]
    /\ delivered = <<>>
    /\ lastAttempt = [item |-> None, since |-> 0]
    /\ found = [u \in Urls |-> 0]
    /\ _scan_status = FALSE
    /\ run = [r \in Scanners |-> RunIdle]

Init == InitProgram /\ probe = NoProbe

\* a text is handed to a scorer
InitScore == InitProgram /\ probe \in ProbeInputs

ScanStep(p) ==
    \/ \E c \in PostCandidates : process_post(p, c)
    \/ \E c \in CommentCandidates : process_comment(p, c)
    \/ \E c \in YoutubeCandidates : process_youtube_comment(p, c)
    \/ insert_lead_commit(p)
    \/ auto_queue_select(p)
    \/ auto_queue_check(p)
    \/ auto_queue_add(p)
    \/ auto_queue_error(p)
    \/ notify_and_return(p)

\* what follows insert_lead in process_post and process_comment
PipelineStep(p) ==
    \/ insert_lead_commit(p)
    \/ auto_queue_select(p)
    \/ auto_queue_check(p)
    \/ auto_queue_add(p)
    \/ auto_queue_error(p)
    \/ notify_and_return(p)
    \/ notify_fails_and_return(p)

CollectorStep(p) ==
    \/ \E c \in WebCandidates : process_search_result(p, c)
    \/ \E c \in ListingCandidates : process_listing(p, c)
    \/ \E c \in CompetitorCandidates : process_competitor_post(p, c)
    \/ tag_lead_as_competitor(p)
    \/ notify_fails_and_return(p)

NoteTexts == {{}, {"called"}}

LeadEditStep ==
    \E lead_id \in 1..Len(leads) :
        \/ mark_contacted(lead_id)
        \/ \E notes \in NoteTexts : update_notes(lead_id, notes)

RunStep(r) ==
    \/ trigger_scan(r)
    \/ auto_scan_tick(r)
    \/ run_scan_enter(r)
    \/ scan_process_post(r)
    \/ scan_process_comment(r)
    \/ scan_candidate_raises(r)
    \/ scan_reddit_done(r)
    \/ scan_process_youtube(r)
    \/ scan_collector_raises(r)
    \/ scan_collectors_done(r)
    \/ run_scan_finish(r)

OperatorStep ==
    \E i \in 1..Len(reply_queue) :
        \/ \E n \in 1..NumEdits : queue_approve_edit(i, n)
        \/ queue_approve(i)
        \/ queue_skip(i)

StartStep(s) ==
    \/ start_check(s)
    \/ start_create(s)
    \/ start_start(s)

PosterStep(t) ==
    \/ loop_enter(t)
    \/ loop_test(t)
    \/ loop_fetch(t)
    \/ loop_read_error(t)
    \/ post_select(t)
    \/ post_no_reddit(t)
    \/ post_no_reddit_error(t)
    \/ get_reddit_login(t)
    \/ post_call(t)
    \/ post_call_raises(t)
    \/ post_write_posted(t)
    \/ post_write_posted_error(t)
    \/ post_write_failed(t)
    \/ post_write_failed_error(t)
    \/ loop_wake(t)

\* Concurrent scans against one store.
NextScan == \E p \in Scanners : ScanStep(p)

SpecScan == Init /\ [][NextScan]_vars

\* The scan that feeds the reply queue in the specifications below finds
\* alice's post, under the first url or under each url.
FeedStep(urls) ==
    \/ \E c \in PostCandidates :
          c.author = "alice" /\ c.url \in urls /\ process_post(1, c)
    \/ insert_lead_commit(1)
    \/ auto_queue_select(1)
    \/ auto_queue_check(1)
    \/ auto_queue_add(1)
    \/ notify_and_return(1)

\* One scan, the operator and the poster started once, as the dashboard does.
NextQueue ==
    \/ FeedStep({1})
    \/ OperatorStep
    \/ StartStep(1)
    \/ \E t \in Threads : PosterStep(t)
    \/ Elapse

SpecQueue == Init /\ [][NextQueue]_vars

\* The same with the clock: time passes in ticks.
NextRate ==
    \/ FeedStep(Urls)
    \/ \E i \in 1..Len(reply_queue) : queue_approve(i)
    \/ StartStep(1)
    \/ \E t \in Threads : PosterStep(t)
    \/ Tick

SpecRate == Init /\ [][NextRate]_vars

\* Callers of start_poster_thread and stop_poster_thread at any time.
NextStart ==
    \/ FeedStep({1})
    \/ \E i \in 1..Len(reply_queue) : queue_approve(i)
    \/ \E s \in Starters : StartStep(s)
    \/ stop_poster_thread
    \/ \E t \in Threads : PosterStep(t)
    \/ Elapse

SpecStart == Init /\ [][NextStart]_vars

\* The poster's steps when the store answers every read and write.
DrainStep(t) ==
    \/ loop_enter(t)
    \/ loop_test(t)
    \/ loop_fetch(t)
    \/ post_select(t)
    \/ get_reddit_login(t)
    \/ post_call(t)
    \/ post_call_raises(t)
    \/ post_write_posted(t)
    \/ post_write_failed(t)
    \/ loop_wake(t)

\* A poster thread is scheduled again and again, gets the write lock of
\* the store when it is free often enough, an open write transaction of
\* the scan commits, and every sleep ends.
FairLoop ==
    /\ \A t \in Threads : SF_vars(DrainStep(t))
    /\ WF_vars(insert_lead_commit(1))
    /\ WF_vars(Elapse)

\* The dashboard's call of start_poster_thread goes through.
FairPoster == WF_vars(StartStep(1)) /\ FairLoop

\* Two queue items, the operator approving at will, the poster running.
NextDrain ==
    \/ FeedStep(Urls)
    \/ \E i \in 1..Len(reply_queue) : queue_approve(i)
    \/ StartStep(1)
    \/ \E t \in Threads : DrainStep(t)
    \/ Elapse

SpecDrain == Init /\ [][NextDrain]_vars /\ FairPoster

RestartStep(s) ==
    \/ restart_stop(s)
    \/ restart_check(s)
    \/ start_create(s)
    \/ start_start(s)

\* The poster started by the dashboard, and a second caller that stops it
\* and starts it again.
\* A call of start_poster_thread that has begun goes through, and so does
\* the call that follows a stop.
FairRestart ==
    /\ WF_vars(start_create(1) \/ start_start(1))
    /\ WF_vars(RestartStep(2))
    /\ FairLoop

NextRestart ==
    \/ FeedStep({1})
    \/ \E i \in 1..Len(reply_queue) : queue_approve(i)
    \/ StartStep(1)
    \/ RestartStep(2)
    \/ \E t \in Threads : DrainStep(t)
    \/ Elapse

SpecRestart == Init /\ [][NextRestart]_vars /\ FairRestart

\* One pass of every collector over one store, as run_full_scan makes it.
NextCollect ==
    \/ ScanStep(1)
    \/ CollectorStep(1)

SpecCollect == Init /\ [][NextCollect]_vars

\* The Reddit scan that finds alice's post under the second url, the other
\* collectors, the operator's edits of leads and the queue's buttons.
NextLeads ==
    \/ FeedStep({2})
    \/ CollectorStep(1)
    \/ LeadEditStep
    \/ \E i \in 1..Len(reply_queue) : queue_approve(i) \/ queue_skip(i)

SpecLeads == Init /\ [][NextLeads]_vars

\* The dashboard's scans: POST /scan and the auto-scan thread.
NextDash ==
    \E r \in Scanners : RunStep(r) \/ PipelineStep(r)

SpecDash == Init /\ [][NextDash]_vars

\* The scorers applied to every text of ProbeTexts.
NextScore ==
    \/ probe_score_text
    \/ probe_web_score_text
    \/ probe_score_listing

SpecScore == InitScore /\ [][NextScore]_vars

Next ==
    \/ \E p \in Scanners : ScanStep(p)
    \/ \E p \in Scanners : CollectorStep(p)
    \/ \E r \in Scanners : RunStep(r)
    \/ LeadEditStep
    \/ NextScore
    \/ \E s \in Starters : RestartStep(s)
    \/ OperatorStep
    \/ \E s \in Starters : StartStep(s)
    \/ stop_poster_thread
    \/ \E t \in Threads : PosterStep(t)
    \/ Tick
    \/ Elapse

Spec == Init /\ [][Next]_vars

(***************************************************************************)
(* Claims.                                                                 *)
(***************************************************************************)

\* C1: once a reply-queue item is posted or skipped, no step of the
\* operator or of the poster changes its status again.
C1_TerminalStatus ==
    [][\A i \in 1..Len(reply_queue) :
          reply_queue[i].status \in {"posted", "skipped"}
              => reply_queue'[i].status = reply_queue[i].status]_vars

\* C2: an item becomes approved only from pending or failed; approve on a
\* skipped or posted item leaves it as it was.
C2_ApproveOnlyFromPendingOrFailed ==
    [][\A i \in 1..Len(reply_queue) :
          (reply_queue'[i].status = "approved"
              /\ reply_queue[i].status # "approved")
              => reply_queue[i].status \in {"pending", "failed"}]_vars

\* C3: an item becomes skipped only from pending; skip on an approved,
\* failed or posted item leaves its status as it was.
C3_SkipOnlyFromPending ==
    [][\A i \in 1..Len(reply_queue) :
          (reply_queue'[i].status = "skipped"
              /\ reply_queue[i].status # "skipped")
              => reply_queue[i].status = "pending"]_vars

\* C4: insert_lead is idempotent by url.  A call whose url is stored already
\* leaves the leads table as it was and returns false; a call with a new url
\* appends exactly one row with that url and returns true; and no two rows
\* ever carry the same url.
C4_InsertLeadIdempotent ==
    /\ [](\A i, j \in 1..Len(leads) : leads[i].url = leads[j].url => i = j)
    /\ [][\A p \in Scanners :
             (scan[p].pc = "commit" /\ scan'[p].pc # "commit") =>
                LET u == scan[p].cand.url
                IN  IF \E i \in 1..Len(leads) : leads[i].url = u
                    THEN leads' = leads /\ newly' = newly
                    ELSE /\ Len(leads') = Len(leads) + 1
                         /\ SubSeq(leads', 1, Len(leads)) = leads
                         /\ leads'[Len(leads')].url = u
                         /\ leads'[Len(leads')].intent_score = scan[p].score
                         /\ newly' = [newly EXCEPT ![u] = @ + 1]]_vars

\* C4, its case: a second call with a stored url and other data is about to
\* return, after the first call returned true.
C4_Witness ==
    \E p \in Scanners, i \in 1..Len(leads) :
        /\ scan[p].pc = "commit"
        /\ scan[p].changes = 0
        /\ leads[i].url = scan[p].cand.url
        /\ leads[i].intent_score # scan[p].score
        /\ leads[i].platform # scan[p].platform
        /\ newly[leads[i].url] = 1

\* C5: under any interleaving of calls of insert_lead with the same url, at
\* most one row with that url exists, exactly one once a call has returned
\* true, and at most one call returns true.
C5_InsertLeadAtomic ==
    \A u \in Urls :
        LET rows == {i \in 1..Len(leads) : leads[i].url = u}
        IN  /\ Cardinality(rows) <= 1
            /\ newly[u] <= 1
            /\ newly[u] = Cardinality(rows)
            /\ \A p \in Scanners :
                  (scan[p].pc \notin {"idle", "commit"} /\ scan[p].cand.url = u)
                      => Cardinality(rows) = 1

\* C5, its case: two passes overlap on one url; one has got true and goes on
\* with its side effects while the other's INSERT found the row.
C5_Witness ==
    \E p, q \in Scanners :
        /\ p # q
        /\ scan[p].pc \in {"auto_queue", "is_queued", "add_to_queue", "notify"}
        /\ scan[q].pc = "commit"
        /\ scan[q].changes = 0
        /\ scan[q].cand.url = scan[p].cand.url

\* C6: at most one poster loop is running at any time, also when calls of
\* start_poster_thread overlap.
C6_SinglePosterLoop == Cardinality({t \in Threads : is_alive(t)}) <= 1

\* C7: in every reachable state, under any interleaving of concurrent
\* qualification passes, at most one reply_queue row carries a given lead_id.
C7_OneQueueItemPerLead ==
    \A l \in 1..Len(leads) :
        Cardinality({i \in 1..Len(reply_queue) :
                        reply_queue[i].lead_id = l}) <= 1

\* C7, its case: a pass has queued the reply for its lead and is not yet done
\* while a second pass with a queueable score works on the same url.
C7_Witness ==
    \E p, q \in Scanners :
        /\ p # q
        /\ scan[p].pc = "notify"
        /\ scan[p].lead_id # None
        /\ is_lead_queued(scan[p].lead_id)
        /\ scan[q].pc = "commit"
        /\ scan[q].cand.url = scan[p].cand.url
        /\ scan[q].score >= AUTO_QUEUE_MIN_SCORE

\* C8: the poster does not start an attempt on an item until BASE_DELAY
\* seconds have passed since its last attempt, on another item, was over.
C8_RateLimit ==
    [][\A t \in Threads :
          (thr[t].pc = "fetch" /\ thr'[t].pc = "select"
              /\ lastAttempt.item \notin {None, thr'[t].item})
              => lastAttempt.since >= BASE_DELAY]_vars

\* C9: when the poster records a failed attempt, the item is failed, its
\* error_message is not empty and at most ERROR_MAX_LEN long, and its
\* posted_at is unset.
C9_FailureRecorded ==
    [][\A t \in Threads :
          (thr[t].pc \in {"call", "failed"} /\ thr'[t].outcome = "failed")
              => /\ reply_queue'[thr[t].item].status = "failed"
                 /\ reply_queue'[thr[t].item].error_message >= 1
                 /\ reply_queue'[thr[t].item].error_message <= ERROR_MAX_LEN
                 /\ reply_queue'[thr[t].item].posted_at = "NULL"]_vars

\* C10: for any url the high-intent notification is sent at most once, the
\* notifications and the queued replies for a url do not outnumber the calls
\* of insert_lead that returned true, and a pass is at its side effects only
\* if its own insert changed a row.
C10_SideEffectsOnlyOnInsert ==
    /\ \A u \in Urls :
          /\ notified[u] <= 1
          /\ notified[u] <= newly[u]
          /\ Cardinality({i \in 1..Len(reply_queue) :
                             reply_queue[i].target_url = u}) <= newly[u]
    /\ \A p \in Scanners :
          scan[p].pc \in {"auto_queue", "is_queued", "add_to_queue", "notify"}
              => scan[p].changes > 0

\* C10, its case: the notification for a url has been sent and another pass
\* with a high-intent score has just had its INSERT skipped for that url.
C10_Witness ==
    \E q \in Scanners :
        /\ scan[q].pc = "commit"
        /\ scan[q].changes = 0
        /\ scan[q].score >= NOTIFY_MIN_SCORE
        /\ notified[scan[q].cand.url] = 1

\* C11: every lead with a score of AUTO_QUEUE_MIN_SCORE or more, once the
\* pipeline step that inserted it is over, has an item in the reply queue,
\* whichever collector inserted it.
C11_HighScoreLeadQueued ==
    \A i \in 1..Len(leads) :
        (/\ leads[i].intent_score >= AUTO_QUEUE_MIN_SCORE
         /\ \A p \in Scanners :
               scan[p].pc = "idle" \/ scan[p].cand.url # leads[i].url)
            => \E j \in 1..Len(reply_queue) : reply_queue[j].lead_id = i

\* C12: at most one scan thread of the dashboard is inside run_full_scan at
\* any time: a trigger that arrives while a scan runs, or after another
\* trigger was accepted, starts no second scan.
C12_OneScanAtATime ==
    Cardinality({r \in Scanners : InFullScan(r)}) <= 1

\* C13: the notification step of process_post and process_comment, whether
\* the notification is sent or raises, changes no lead row and no queue
\* item, and the step reports the lead as found.
C13_NotificationFailureHarmless ==
    [][\A p \in Scanners :
          (scan[p].pc = "notify" /\ scan'[p].pc = "idle")
              => /\ leads' = leads
                 /\ reply_queue' = reply_queue
                 /\ found'[scan[p].cand.url] = found[scan[p].cand.url] + 1]_vars

\* a Reddit lead of notification score, stored and queued and reported
\* found, whose notification was never sent
C13_Witness ==
    /\ \A p \in Scanners : scan[p].pc = "idle"
    /\ \E i \in 1..Len(leads) :
          /\ leads[i].platform = "reddit"
          /\ leads[i].notes = {}
          /\ leads[i].intent_score >= NOTIFY_MIN_SCORE
          /\ notified[leads[i].url] = 0
          /\ found[leads[i].url] = 1
          /\ \E j \in 1..Len(reply_queue) : reply_queue[j].lead_id = i

\* C14: a scan leaves the candidates of its Reddit listings, and those of
\* a later collector, only when each has been processed: a failure on one
\* candidate never keeps the others from their turn.
C14_FailureDoesNotAbortBatch ==
    [][\A r \in Scanners :
          /\ (run[r].pc = "reddit" /\ run'[r].pc # "reddit")
                => run[r].pos > Len(RedditBatch)
          /\ (run[r].pc = "reddit" /\ run'[r].pc # "reddit")
                => run'[r].pc = "youtube"]_vars

\* C15: no step removes a lead row or changes its id (its position), url,
\* intent_score or found_at: not a scan, a re-scan of its url, a contacted
\* toggle, a note edit, a competitor tag or a queue operation.
C15_LeadIdentityImmutable ==
    [][/\ Len(leads') >= Len(leads)
       /\ \A i \in 1..Len(leads) :
             /\ leads'[i].url = leads[i].url
             /\ leads'[i].intent_score = leads[i].intent_score
             /\ leads'[i].found_at = leads[i].found_at]_vars

\* a lead tagged by the competitor search, marked contacted and annotated,
\* whose url a collector has just met again with another score, while an
\* item of the queue has been approved or skipped
C15_Witness ==
    /\ \E i \in 1..Len(leads) :
          /\ leads[i].contacted
          /\ "competitor_complaint" \in leads[i].notes
          /\ "called" \in leads[i].notes
          /\ scan[1].pc = "commit"
          /\ scan[1].changes = 0
          /\ scan[1].cand.url = leads[i].url
          /\ scan[1].score # leads[i].intent_score
    /\ \E j \in 1..Len(reply_queue) : reply_queue[j].status # "pending"

\* C16 as stated: posted_at changes only in a step that makes the item
\* posted, and error_message only in a step that makes it failed.
C16_ErrorOnlyOnFailed ==
    [][\A i \in 1..Len(reply_queue) :
          /\ reply_queue'[i].posted_at # reply_queue[i].posted_at
                => reply_queue'[i].status = "posted"
          /\ reply_queue'[i].error_message # reply_queue[i].error_message
                => reply_queue'[i].status = "failed"]_vars

\* C16, amended: posted_at changes only in a step that makes the item
\* posted; error_message changes only in a step that makes it failed or in
\* the step that makes it posted, which empties it; a new item has neither,
\* and enqueue, approve and skip change neither field of any item.
C16_FieldsWrittenByPoster ==
    [][/\ \A i \in 1..Len(reply_queue) :
             /\ reply_queue'[i].posted_at # reply_queue[i].posted_at
                   => reply_queue'[i].status = "posted"
             /\ reply_queue'[i].error_message # reply_queue[i].error_message
                   => \/ reply_queue'[i].status = "failed"
                      \/ /\ reply_queue'[i].status = "posted"
                         /\ reply_queue'[i].error_message = 0
       /\ \A i \in (Len(reply_queue) + 1)..Len(reply_queue') :
             /\ reply_queue'[i].posted_at = "NULL"
             /\ reply_queue'[i].error_message = 0]_vars

\* an item approved again after a failed attempt still carries the error
\* message, and the poster has delivered it and is about to mark it posted
C16_Witness ==
    \E t \in Threads :
        /\ thr[t].pc = "posted"
        /\ thr[t].item \in 1..Len(reply_queue)
        /\ reply_queue[thr[t].item].status = "approved"
        /\ reply_queue[thr[t].item].error_message > 0
        /\ reply_queue[thr[t].item].posted_at = "NULL"

C18_KeywordScoreFormula ==
    LET matches == probe.text.kws \cap DOMAIN KEYWORDS
        N == Cardinality(matches)
        W == CHOOSE w \in {KEYWORDS[k] : k \in matches} :
                 \A k \in matches : KEYWORDS[k] <= w
        bonus == IF N - 1 < 2 THEN N - 1 ELSE 2
        base == IF W + bonus < 10 THEN W + bonus ELSE 10
        national == /\ probe.subreddit # NoSubreddit
                    /\ probe.subreddit \notin LOCAL_SUBREDDITS
    IN  (probe.scorer = "score_text" /\ probe.score # NotScored /\ N >= 1)
            => /\ probe.score =
                    IF probe.text.loc
                    THEN IF base + LOCATION_SCORE_BOOST < 10
                         THEN base + LOCATION_SCORE_BOOST ELSE 10
                    ELSE IF national /\ NATIONAL_CAP < base
                         THEN NATIONAL_CAP ELSE base
               /\ (N = 1 /\ ~probe.text.loc /\ ~national) => probe.score = W

\* four keywords of maximum weight 7 in a text with no location term from
\* a local subreddit: 7 + min(3, 2) = 9
C18_Witness ==
    /\ probe.scorer = "score_text"
    /\ probe.score = 9
    /\ probe.subreddit = "Denver"
    /\ ~probe.text.loc
    /\ probe.text.kws = {"kitchen remodel", "remodel ideas",
                         "before and after", "inspiration"}

\* C19: a candidate of the Reddit, YouTube or web collector whose source is
\* not a local one and whose text has no location term is stored with a
\* score of NATIONAL_CAP at most.
C19_NationalCapEveryCollector ==
    \A p \in Scanners :
        (/\ scan[p].pc = "commit"
         /\ scan[p].platform \in {"reddit", "youtube", "web"}
         /\ scan[p].cand.subreddit \notin LOCAL_SUBREDDITS
         /\ ~_check_location(scan[p].cand.text))
            => scan[p].score <= NATIONAL_CAP

\* C20: no collector inserts a lead for a text that has neither a
\* configured keyword nor a location term: its score is 0 and it is
\* rejected before insert_lead.
C20_NoKeywordNoLead ==
    \A p \in Scanners :
        (/\ scan[p].pc = "commit"
         /\ scan[p].cand.text.kws \cap DOMAIN KEYWORDS = {}
         /\ ~_check_location(scan[p].cand.text))
            => scan[p].changes = 0 /\ scan[p].score = 0

\* C21: whichever collector hands a candidate to insert_lead, its author is
\* no sentinel, its text has no negative keyword and fewer than two seller
\* signals, it has a required term if its source is local-only, and its
\* score is MIN_SCORE_THRESHOLD or more.
C21_FiltersApplyToEveryCollector ==
    \A p \in Scanners :
        scan[p].pc = "commit"
            => /\ scan[p].cand.author \notin SentinelAuthors
               /\ ~_hits_negative_keyword(scan[p].cand.text)
               /\ ~_is_seller(scan[p].cand.text)
               /\ _passes_local_filter(scan[p].cand.text,
                                       scan[p].cand.subreddit)
               /\ scan[p].score >= MIN_SCORE_THRESHOLD

\* C22: the platform reply call is made at most once for each queue item,
\* whatever the operator and the poster do.
C22_DeliveredAtMostOnce ==
    \A i \in DOMAIN delivered : delivered[i] <= 1

\* C23: the poster makes the platform call for an item, and writes posted
\* or failed on it, only while the item is approved in the store.
C23_OnlyApprovedDelivered ==
    [][\A t \in Threads :
          /\ (thr[t].pc = "call" /\ thr'[t].pc = "posted")
                => reply_queue[thr[t].item].status = "approved"
          /\ (thr[t].pc \in {"call", "posted", "failed"}
                 /\ thr'[t].pc = "sleep"
                 /\ reply_queue' # reply_queue)
                => reply_queue[thr[t].item].status = "approved"]_vars

\* C26: no step changes the reply_text of an item that is approved.
C26_TextFrozenAtApproval ==
    [][\A i \in 1..Len(reply_queue) :
          reply_queue[i].status = "approved"
              => reply_queue'[i].reply_text = reply_queue[i].reply_text]_vars

\* C28: an item is posted only if the platform reply call was made for it.
C28_PostedOnlyIfDelivered ==
    \A i \in 1..Len(reply_queue) :
        reply_queue[i].status = "posted"
            => i \in DOMAIN delivered /\ delivered[i] >= 1

\* C24: when the poster selects an item, no other approved item was
\* created earlier.
C24_OldestApprovedFirst ==
    [][\A t \in Threads :
          (thr[t].pc = "fetch" /\ thr'[t].pc = "select")
              => \A j \in 1..Len(reply_queue) :
                    reply_queue[j].status = "approved"
                        => reply_queue[thr'[t].item].created_at
                               <= reply_queue[j].created_at]_vars

\* C25: while the poster keeps running, every item that is approved is
\* posted or failed later on, also when the operator goes on approving.
C25_ApprovedEventuallyAttempted ==
    \A i \in 1..NumUrls :
        (i <= Len(reply_queue) /\ reply_queue[i].status = "approved")
            ~> (i <= Len(reply_queue)
                   /\ reply_queue[i].status \in {"posted", "failed"})

\* C27: the poster loop ends only at its while test, with _poster_running
\* false.  From every place of an attempt, failed or not, the thread goes
\* on inside the attempt or to a sleep; a sleep ends at the while test; and
\* the test, with _poster_running true, leads to the next fetch.
C27_FailureNeverStopsLoop ==
    [][\A t \in Threads :
          /\ (thr'[t].pc = "dead" /\ thr[t].pc # "dead")
                => (thr[t].pc = "test" /\ ~_poster_running)
          /\ thr[t].pc \in {"fetch", "select", "call", "posted", "failed"}
                => thr'[t].pc \in {"fetch", "select", "call", "posted",
                                   "failed", "sleep"}
          /\ thr[t].pc = "sleep" => thr'[t].pc \in {"sleep", "test"}
          /\ (thr[t].pc = "test" /\ _poster_running)
                => thr'[t].pc \in {"test", "fetch"}]_vars

\* an attempt has failed for missing credentials, the loop has slept, and
\* it is at the fetch again with the item approved
C27_Witness ==
    \E t \in Threads :
        /\ thr[t].pc = "fetch"
        /\ lastAttempt.item # None
        /\ reply_queue[lastAttempt.item].status = "approved"
        /\ ~_reddit
        /\ _poster_running

\* C29: once start_poster_thread has returned after a stop_poster_thread,
\* a poster loop fetches approved items again and again.
C29_RestartKeepsDraining ==
    [](starter[2] = "returned"
          => []<>(\E t \in Threads : thr[t].pc = "fetch"))

\* C30: when run_full_scan raises, _scan_status["running"] is false again
\* and the thread is back where it can trigger the next scan.
C30_ScanFailureRecovered ==
    [][\A r \in Scanners :
          (run[r].pc = "finally" /\ run[r].aborted /\ run'[r].pc # "finally")
              => ~_scan_status' /\ run'[r].pc = "idle"]_vars

=============================================================================
